---- MODULE Spec2Model ----
(***************************************************************************)
(* Model of the notebook "1. Delta Lake で構築する臨床データレイク.py":       *)
(* a bronze / silver / gold pipeline over Delta tables.                    *)
(*                                                                         *)
(* A dataset (Spark DataFrame) is a record                                 *)
(*   cols : the sequence of column names (the schema, positional)          *)
(*   rows : a sequence of rows, each a sequence of cell values             *)
(*   src  : the set of places the dataset was read from (its lineage)      *)
(* The file store maps each table path to the sequence of its committed    *)
(* versions: <<>> when no table is at the path.                            *)
(***************************************************************************)
EXTENDS Integers, Sequences, FiniteSets, TLC

\* ---------------------------------------------------------------- bounds
MaxPatients == 2      \* rows of patients.csv
MaxEnc      == 2      \* rows of encounters.csv
MaxReruns   == 2      \* stage re-runs after the first run (SpecRerun)

\* ------------------------------------------------------------ vocabulary
NULL == "<null>"

\* the columns named at line 141, in the order written there
DropList ==
  <<"SSN", "DRIVERS", "PASSPORT", "PREFIX", "FIRST", "LAST", "SUFFIX",
    "MAIDEN", "BIRTHPLACE", "ADDRESS">>

Range(s) == {s[i] : i \in 1..Len(s)}

Identifiers == Range(DropList)

\* table paths below delta_path
P_PATIENTS_RAW   == "patients_raw"
P_ENCOUNTERS_RAW == "encounters_raw"
P_PATIENTS       == "patients"
P_ENCOUNTERS     == "encounters"
P_GOLD           == "encounter_patients"

Paths == {P_PATIENTS_RAW, P_ENCOUNTERS_RAW, P_PATIENTS, P_ENCOUNTERS, P_GOLD}

CSV_PATIENTS   == "csv:patients.csv"
CSV_ENCOUNTERS == "csv:encounters.csv"

\* the name registered at lines 239-243
GOLD_TABLE == "encounter_patients"

\* a Python name that has not been assigned yet
Unbound == [cols |-> <<>>, rows |-> <<>>, src |-> {}]

\* ------------------------------------------------------- the source files
\* header of patients.csv: the key, the direct identifiers, two demographics
PatientHeaderFull == <<"Id">> \o DropList \o <<"BIRTHDATE", "ZIP">>

\* header of encounters.csv
EncounterHeaderFull == <<"Id", "PATIENT", "REASONDESCRIPTION">>

Without(s, c) == SelectSeq(s, LAMBDA x : x # c)

\* a header is complete or lacks one column (schema drift upstream)
PatientHeaders ==
  {PatientHeaderFull} \cup {Without(PatientHeaderFull, c) : c \in Identifiers \cup {"Id"}}

EncounterHeaders ==
  {EncounterHeaderFull, Without(EncounterHeaderFull, "REASONDESCRIPTION")}

PatientIds   == {"P1", "P2"}
EncPatients  == {"P1", "P9", NULL}
Reasons      == {"Flu", NULL}

SeqUpTo(S, n) == UNION {[1..k -> S] : k \in 0..n}

\* the row of patient id under a header: the key, and one value per column
PatientRow(header, id) ==
  [i \in 1..Len(header) |->
     IF header[i] = "Id" THEN id ELSE id \o "." \o header[i]]

\* the k-th encounter row under a header
EncounterRow(header, k, e) ==
  [i \in 1..Len(header) |->
     CASE header[i] = "Id"                -> "E" \o ToString(k)
       [] header[i] = "PATIENT"           -> e[1]
       [] header[i] = "REASONDESCRIPTION" -> e[2]
       [] OTHER                           -> NULL]

PatientFile(header, ids) ==
  [cols |-> header,
   rows |-> [k \in 1..Len(ids) |-> PatientRow(header, ids[k])],
   src  |-> {CSV_PATIENTS}]

EncounterFile(header, es) ==
  [cols |-> header,
   rows |-> [k \in 1..Len(es) |-> EncounterRow(header, k, es[k])],
   src  |-> {CSV_ENCOUNTERS}]

PatientFiles ==
  {PatientFile(h, ids) : h \in PatientHeaders, ids \in SeqUpTo(PatientIds, MaxPatients)}

EncounterFiles ==
  {EncounterFile(h, es) : h \in EncounterHeaders,
                          es \in SeqUpTo(EncPatients \X Reasons, MaxEnc)}

\* ------------------------------------------------- DataFrame operations
HasCol(df, c) == c \in Range(df.cols)

\* position of the column named c
ColIdx(df, c) == CHOOSE i \in 1..Len(df.cols) : df.cols[i] = c

\* the positions of the columns of a schema not named in names, in order
Positions(cols, names) ==
  SelectSeq([i \in 1..Len(cols) |-> i], LAMBDA i : cols[i] \notin names)

Project(s, idxs) == [k \in 1..Len(idxs) |-> s[idxs[k]]]

\* DataFrame.drop(*names): a projection; a name that is no column is ignored
Drop(df, names) ==
  LET keep == Positions(df.cols, names)
  IN  [cols |-> Project(df.cols, keep),
       rows |-> [k \in 1..Len(df.rows) |-> Project(df.rows[k], keep)],
       src  |-> df.src]

\* DataFrame.filter(col(c).isNotNull()): analysis fails if c is no column
CanFilter(df, c) == HasCol(df, c)

FilterNotNull(df, c) ==
  [cols |-> df.cols,
   rows |-> SelectSeq(df.rows, LAMBDA r : r[ColIdx(df, c)] # NULL),
   src  |-> df.src]

\* DataFrame.withColumnRenamed(existing, new): no-op if existing is absent
WithColumnRenamed(df, existing, new) ==
  [cols |-> [i \in 1..Len(df.cols) |-> IF df.cols[i] = existing THEN new ELSE df.cols[i]],
   rows |-> df.rows,
   src  |-> df.src]

\* SQL equality of two key values: NULL equals nothing
KeyEq(a, b) == a # NULL /\ b # NULL /\ a = b

\* the rows of an inner equi-join: key, left's other cells, right's other cells
RECURSIVE JoinRows(_, _, _, _, _, _)
JoinRows(lrows, rrows, lk, rk, lrest, rrest) ==
  IF lrows = <<>> THEN <<>>
  ELSE LET l     == Head(lrows)
           match == SelectSeq(rrows, LAMBDA r : KeyEq(l[lk], r[rk]))
           out   == [k \in 1..Len(match) |->
                       <<l[lk]>> \o Project(l, lrest) \o Project(match[k], rrest)]
       IN  out \o JoinRows(Tail(lrows), rrows, lk, rk, lrest, rrest)

\* left.join(right, key) resolves key on both sides
CanJoin(left, right, key) == HasCol(left, key) /\ HasCol(right, key)

\* left.join(right, key): inner join, the key column kept once and first
Join(left, right, key) ==
  LET lrest == Positions(left.cols, {key})
      rrest == Positions(right.cols, {key})
  IN  [cols |-> <<key>> \o Project(left.cols, lrest) \o Project(right.cols, rrest),
       rows |-> JoinRows(left.rows, right.rows, ColIdx(left, key), ColIdx(right, key),
                         lrest, rrest),
       src  |-> left.src \cup right.src]

\* --------------------------------------------------------- Delta storage
Exists(st, path) == st[path] # <<>>

\* the current snapshot of the table at path
Snapshot(st, path) == st[path][Len(st[path])]

\* a writer that never reports a conflict
SaveError_NoConflict(st, path, ok) == IF ~ok THEN "StorageError" ELSE "none"

\* df.write.format("delta").save(path): the default save mode is
\* error-if-exists; the commit is atomic, so a failed write leaves nothing
SaveError(st, path, ok) ==
  IF Exists(st, path) THEN "WriteConflictError"
  ELSE IF ~ok THEN "StorageError"
  ELSE "none"

\* a writer in overwrite mode: a new version replaces the current one
Save_Overwrite(st, df, path, ok) ==
  IF ok THEN [st EXCEPT ![path] = st[path] \o <<df>>] ELSE st

\* a writer without an atomic commit: a failed write leaves what it wrote
Save_NonAtomic(st, df, path, ok) ==
  IF Exists(st, path) THEN st
  ELSE IF ok THEN [st EXCEPT ![path] = <<df>>]
  ELSE [st EXCEPT ![path] = <<[cols |-> df.cols, rows |-> <<>>, src |-> df.src]>>]

Save(st, df, path, ok) ==
  IF SaveError(st, path, ok) = "none"
  THEN [st EXCEPT ![path] = <<df>>]
  ELSE st

\* spark.read.format("delta").load(path)
Load(st, path) ==
  [cols |-> Snapshot(st, path).cols,
   rows |-> Snapshot(st, path).rows,
   src  |-> {path}]

\* ------------------------------------------------------------------ state
VARIABLES
  pc,                    \* the statement of the notebook that runs next
  err,                   \* the exception that ended the run, or "none"
  failed_at,             \* the statement that raised it, or "none"
  store,                 \* path -> committed versions of the Delta table there
  catalog,               \* tables registered in the database
  csv_patients,          \* content of patients.csv
  csv_encounters,        \* content of encounters.csv
  df_patients_raw,       \* the notebook's Python names
  df_encounters_raw,
  df_patients,
  df_encounters,
  df_encounter_patients,
  entry,                 \* the stage at which the current run was started
  reruns,                \* how many runs were started after the first
  last                   \* outcome and store at the end of the previous run

vars ==
  <<pc, err, failed_at, store, catalog, csv_patients, csv_encounters,
    df_patients_raw, df_encounters_raw, df_patients, df_encounters,
    df_encounter_patients, entry, reruns, last>>

files   == <<csv_patients, csv_encounters>>
session == <<entry, reruns, last>>
raws    == <<df_patients_raw, df_encounters_raw>>
frames  == <<df_patients, df_encounters, df_encounter_patients>>

EmptyStore == [p \in Paths |-> <<>>]

\* the notebook before its first statement, in an empty workspace
Start(patientFiles, encounterFiles) ==
  /\ pc = "drop_database"
  /\ err = "none"
  /\ failed_at = "none"
  /\ store = EmptyStore
  /\ catalog = {}
  /\ csv_patients \in patientFiles
  /\ csv_encounters \in encounterFiles
  /\ df_patients_raw = Unbound
  /\ df_encounters_raw = Unbound
  /\ df_patients = Unbound
  /\ df_encounters = Unbound
  /\ df_encounter_patients = Unbound
  /\ entry = "prep"
  /\ reruns = 0
  /\ last = [outcome |-> "none", store |-> EmptyStore]

Init == Start(PatientFiles, EncounterFiles)

\* the source files of the re-run scenarios: one or two patients; a kept and
\* a dropped encounter, or a matched and an unmatched one
ScenarioPatientFiles ==
  {PatientFile(h, ids) : h \in PatientHeaders, ids \in {<<"P1">>, <<"P1", "P2">>}}

ScenarioEncounterFiles ==
  {EncounterFile(h, es) : h \in EncounterHeaders,
                          es \in {<< <<"P1", "Flu">>, <<"P1", NULL>> >>,
                                  << <<"P1", "Flu">>, <<"P9", "Flu">> >>}}

InitRerun == Start(ScenarioPatientFiles, ScenarioEncounterFiles)

\* an exception ends the run at the statement that raised it
Fail(at, e) ==
  /\ pc' = "failed"
  /\ err' = e
  /\ failed_at' = at

Goto(next) ==
  /\ pc' = next
  /\ UNCHANGED <<err, failed_at>>

\* --------------------------------------------------- preparation (18-38)
\* drop database without cascade: the registered tables stay
DropDatabase_NoCascade ==
  /\ pc = "drop_database"
  /\ Goto("rm_delta_path")
  /\ UNCHANGED <<catalog, store, files, raws, frames, session>>

DropDatabase ==
  /\ pc = "drop_database"
  /\ catalog' = {}
  /\ Goto("rm_delta_path")
  /\ UNCHANGED <<store, files, raws, frames, session>>

RmDeltaPath ==
  /\ pc = "rm_delta_path"
  /\ store' = EmptyStore
  /\ Goto("read_csv_patients")
  /\ UNCHANGED <<catalog, files, raws, frames, session>>

\* ------------------------------------------------------- bronze (62-102)
ReadCsvPatients ==
  /\ pc = "read_csv_patients"
  /\ \E ok \in BOOLEAN :
       IF ok
       THEN /\ df_patients_raw' = csv_patients
            /\ Goto("read_csv_encounters")
       ELSE /\ Fail("read_csv_patients", "IngestError")
            /\ UNCHANGED df_patients_raw
  /\ UNCHANGED <<store, catalog, files, df_encounters_raw, frames, session>>

ReadCsvEncounters ==
  /\ pc = "read_csv_encounters"
  /\ \E ok \in BOOLEAN :
       IF ok
       THEN /\ df_encounters_raw' = csv_encounters
            /\ Goto("write_patients_raw")
       ELSE /\ Fail("read_csv_encounters", "IngestError")
            /\ UNCHANGED df_encounters_raw
  /\ UNCHANGED <<store, catalog, files, df_patients_raw, frames, session>>

\* one write statement: save df at path, then go on or stop
WriteStep(at, df, path, next) ==
  /\ pc = at
  /\ \E ok \in BOOLEAN :
       /\ store' = Save(store, df, path, ok)
       /\ IF SaveError(store, path, ok) = "none"
          THEN Goto(next)
          ELSE Fail(at, SaveError(store, path, ok))
  /\ UNCHANGED <<catalog, files, raws, frames, session>>

WritePatientsRaw ==
  WriteStep("write_patients_raw", df_patients_raw, P_PATIENTS_RAW, "write_encounters_raw")

WriteEncountersRaw ==
  WriteStep("write_encounters_raw", df_encounters_raw, P_ENCOUNTERS_RAW, "load_patients_raw")

\* ------------------------------------------------------ silver (116-181)
\* the cleaning stage taking the dataset read from the file
LoadPatientsRaw_FromMemory ==
  /\ pc = "load_patients_raw"
  /\ df_patients' = df_patients_raw
  /\ Goto("load_encounters_raw")
  /\ UNCHANGED <<store, catalog, files, raws, df_encounters, df_encounter_patients, session>>

LoadPatientsRaw ==
  /\ pc = "load_patients_raw"
  /\ IF Exists(store, P_PATIENTS_RAW)
     THEN /\ df_patients' = Load(store, P_PATIENTS_RAW)
          /\ Goto("load_encounters_raw")
     ELSE /\ Fail("load_patients_raw", "PathNotFound")
          /\ UNCHANGED df_patients
  /\ UNCHANGED <<store, catalog, files, raws, df_encounters, df_encounter_patients, session>>

LoadEncountersRaw ==
  /\ pc = "load_encounters_raw"
  /\ IF Exists(store, P_ENCOUNTERS_RAW)
     THEN /\ df_encounters' = Load(store, P_ENCOUNTERS_RAW)
          /\ Goto("drop_pii")
     ELSE /\ Fail("load_encounters_raw", "PathNotFound")
          /\ UNCHANGED df_encounters
  /\ UNCHANGED <<store, catalog, files, raws, df_patients, df_encounter_patients, session>>

\* a drop list that forgets ADDRESS
DropPII_KeepsAddress(df) == Drop(df, Identifiers \ {"ADDRESS"})

\* the key renamed in the cleaning stage
DropPII_Renames(df) == WithColumnRenamed(Drop(df, Identifiers), "Id", "PATIENT_ID")

\* line 141
DropPII(df) == Drop(df, Identifiers)

\* a drop that rejects a name that is no column
DropPIIStep_Strict ==
  /\ pc = "drop_pii"
  /\ IF Identifiers \subseteq Range(df_patients.cols)
     THEN /\ df_patients' = Drop(df_patients, Identifiers)
          /\ Goto("filter_encounters")
     ELSE /\ Fail("drop_pii", "SchemaError")
          /\ UNCHANGED df_patients
  /\ UNCHANGED <<store, catalog, files, raws, df_encounters, df_encounter_patients, session>>

DropPIIStep ==
  /\ pc = "drop_pii"
  /\ df_patients' = DropPII(df_patients)
  /\ Goto("filter_encounters")
  /\ UNCHANGED <<store, catalog, files, raws, df_encounters, df_encounter_patients, session>>

\* the filter with its test inverted
FilterEncounters_IsNull(df) ==
  [cols |-> df.cols,
   rows |-> SelectSeq(df.rows, LAMBDA r : r[ColIdx(df, "REASONDESCRIPTION")] = NULL),
   src  |-> df.src]

\* line 157
FilterEncounters(df) == FilterNotNull(df, "REASONDESCRIPTION")

FilterEncountersStep ==
  /\ pc = "filter_encounters"
  /\ IF CanFilter(df_encounters, "REASONDESCRIPTION")
     THEN /\ df_encounters' = FilterEncounters(df_encounters)
          /\ Goto("write_patients")
     ELSE /\ Fail("filter_encounters", "SchemaError")
          /\ UNCHANGED df_encounters
  /\ UNCHANGED <<store, catalog, files, raws, df_patients, df_encounter_patients, session>>

WritePatients ==
  WriteStep("write_patients", df_patients, P_PATIENTS, "write_encounters")

WriteEncounters ==
  WriteStep("write_encounters", df_encounters, P_ENCOUNTERS, "load_patients")

\* -------------------------------------------------------- gold (195-243)
LoadPatients ==
  /\ pc = "load_patients"
  /\ IF Exists(store, P_PATIENTS)
     THEN /\ df_patients' = Load(store, P_PATIENTS)
          /\ Goto("load_encounters")
     ELSE /\ Fail("load_patients", "PathNotFound")
          /\ UNCHANGED df_patients
  /\ UNCHANGED <<store, catalog, files, raws, df_encounters, df_encounter_patients, session>>

LoadEncounters ==
  /\ pc = "load_encounters"
  /\ IF Exists(store, P_ENCOUNTERS)
     THEN /\ df_encounters' = Load(store, P_ENCOUNTERS)
          /\ Goto("rename_encounters")
     ELSE /\ Fail("load_encounters", "PathNotFound")
          /\ UNCHANGED df_encounters
  /\ UNCHANGED <<store, catalog, files, raws, df_patients, df_encounter_patients, session>>

RenameEncounters ==
  /\ pc = "rename_encounters"
  /\ df_encounters' = WithColumnRenamed(df_encounters, "PATIENT", "PATIENT_ID")
  /\ Goto("rename_patients")
  /\ UNCHANGED <<store, catalog, files, raws, df_patients, df_encounter_patients, session>>

RenamePatients ==
  /\ pc = "rename_patients"
  /\ df_patients' = WithColumnRenamed(df_patients, "Id", "PATIENT_ID")
  /\ Goto("join")
  /\ UNCHANGED <<store, catalog, files, raws, df_encounters, df_encounter_patients, session>>

\* a semi-join: one row per matched encounter, with its first patient row
JoinEncounterPatients_FirstMatch(enc, pat) ==
  LET j     == Join(enc, pat, "PATIENT_ID")
      first == {k \in 1..Len(j.rows) : \A i \in 1..(k - 1) : j.rows[i][2] # j.rows[k][2]}
  IN  [cols |-> j.cols,
       rows |-> Project(j.rows, SelectSeq([i \in 1..Len(j.rows) |-> i], LAMBDA i : i \in first)),
       src  |-> j.src]

\* line 219
JoinEncounterPatients(enc, pat) == Join(enc, pat, "PATIENT_ID")

JoinStep ==
  /\ pc = "join"
  /\ IF CanJoin(df_encounters, df_patients, "PATIENT_ID")
     THEN /\ df_encounter_patients' = JoinEncounterPatients(df_encounters, df_patients)
          /\ Goto("write_gold")
     ELSE /\ Fail("join", "KeyError")
          /\ UNCHANGED df_encounter_patients
  /\ UNCHANGED <<store, catalog, files, raws, df_patients, df_encounters, session>>

WriteGold ==
  WriteStep("write_gold", df_encounter_patients, P_GOLD, "create_table")

Registered(name) == \E t \in catalog : t.name = name

\* create table encounter_patients using delta location '<delta_path>/encounter_patients'
CreateTable ==
  /\ pc = "create_table"
  /\ IF Registered(GOLD_TABLE)
     THEN /\ Fail("create_table", "TableAlreadyExists")
          /\ UNCHANGED catalog
     ELSE IF ~Exists(store, P_GOLD)
     THEN /\ Fail("create_table", "SchemaError")
          /\ UNCHANGED catalog
     ELSE /\ catalog' = catalog \cup {[name |-> GOLD_TABLE, location |-> P_GOLD]}
          /\ Goto("done")
  /\ UNCHANGED <<store, files, raws, frames, session>>

\* ------------------------------------------------------------- re-running
\* the first statement of each stage of the notebook
StageStart ==
  [prep |-> "drop_database", bronze |-> "read_csv_patients",
   clean |-> "load_patients_raw", join |-> "load_patients"]

Stages == DOMAIN StageStart

\* after a run has ended the notebook is run again from the top of a stage;
\* the Python names and the storage are as the previous run left them
Rerun ==
  /\ pc \in {"done", "failed"}
  /\ reruns < MaxReruns
  /\ \E stage \in Stages :
       /\ pc' = StageStart[stage]
       /\ entry' = stage
  /\ err' = "none"
  /\ failed_at' = "none"
  /\ reruns' = reruns + 1
  /\ last' = [outcome |-> pc, store |-> store]
  /\ UNCHANGED <<store, catalog, files, raws, frames>>

Next ==
  \/ DropDatabase
  \/ RmDeltaPath
  \/ ReadCsvPatients
  \/ ReadCsvEncounters
  \/ WritePatientsRaw
  \/ WriteEncountersRaw
  \/ LoadPatientsRaw
  \/ LoadEncountersRaw
  \/ DropPIIStep
  \/ FilterEncountersStep
  \/ WritePatients
  \/ WriteEncounters
  \/ LoadPatients
  \/ LoadEncounters
  \/ RenameEncounters
  \/ RenamePatients
  \/ JoinStep
  \/ WriteGold
  \/ CreateTable

\* one run of the notebook from the top, on every pair of source files
Spec == Init /\ [][Next]_vars

NextRerun == Next \/ Rerun

\* runs and re-runs of stages
SpecRerun == InitRerun /\ [][NextRerun]_vars

\* ================================================================ claims
Tab(path) == Snapshot(store, path)

Cols(path) == Range(Tab(path).cols)

\* the value of column c in row r of the table at path
Cell(path, r, c) == r[ColIdx(Tab(path), c)]

\* the statements of the notebook in the order a run executes them
Stmts ==
  <<"drop_database", "rm_delta_path", "read_csv_patients", "read_csv_encounters",
    "write_patients_raw", "write_encounters_raw", "load_patients_raw",
    "load_encounters_raw", "drop_pii", "filter_encounters", "write_patients",
    "write_encounters", "load_patients", "load_encounters", "rename_encounters",
    "rename_patients", "join", "write_gold", "create_table", "done">>

Ord(l) == CHOOSE i \in 1..Len(Stmts) : Stmts[i] = l

\* the statement that writes the table at each path
WriterOf ==
  [p \in Paths |->
     CASE p = P_PATIENTS_RAW   -> "write_patients_raw"
       [] p = P_ENCOUNTERS_RAW -> "write_encounters_raw"
       [] p = P_PATIENTS       -> "write_patients"
       [] p = P_ENCOUNTERS     -> "write_encounters"
       [] p = P_GOLD           -> "write_gold"]

\* bronze = 1, silver = 2, gold = 3
TierOfPath ==
  [p \in Paths |->
     IF p \in {P_PATIENTS_RAW, P_ENCOUNTERS_RAW} THEN 1
     ELSE IF p \in {P_PATIENTS, P_ENCOUNTERS} THEN 2 ELSE 3]

\* the tier whose stage a statement belongs to
TierOfStmt(l) ==
  IF Ord(l) <= Ord("write_encounters_raw") THEN 1
  ELSE IF Ord(l) <= Ord("write_encounters") THEN 2 ELSE 3

RunEnded == pc \in {"done", "failed"}

\* ---------------------------------------------------------------- C1
\* C1: no direct-identifier column (SSN, DRIVERS, PASSPORT, PREFIX, FIRST,
\* LAST, SUFFIX, MAIDEN, BIRTHPLACE, ADDRESS) is a column of the persisted
\* silver table patients or of the persisted gold table encounter_patients,
\* and silver patients has exactly as many rows as bronze patients_raw.
C1_NoIdentifiersPastBronze ==
  /\ Exists(store, P_PATIENTS) =>
       /\ Cols(P_PATIENTS) \cap Identifiers = {}
       /\ Exists(store, P_PATIENTS_RAW)
       /\ Len(Tab(P_PATIENTS).rows) = Len(Tab(P_PATIENTS_RAW).rows)
  /\ Exists(store, P_GOLD) => Cols(P_GOLD) \cap Identifiers = {}

\* a run that wrote gold rows from a bronze table holding every identifier
C1_Witness ==
  /\ Exists(store, P_GOLD)
  /\ Tab(P_GOLD).rows # <<>>
  /\ Identifiers \subseteq Cols(P_PATIENTS_RAW)
  /\ Len(Tab(P_PATIENTS).rows) = MaxPatients

\* ---------------------------------------------------------------- C2
\* C2: silver encounters holds exactly the bronze encounter rows whose
\* REASONDESCRIPTION is non-null: same columns, every silver row is a bronze
\* row unaltered and has a non-null REASONDESCRIPTION, every bronze row with a
\* non-null REASONDESCRIPTION is kept once, and silver has at most as many
\* rows as bronze.
C2_SilverEncountersFiltered ==
  Exists(store, P_ENCOUNTERS) =>
    LET silver == Tab(P_ENCOUNTERS)
        bronze == Tab(P_ENCOUNTERS_RAW)
        kept   == {k \in 1..Len(bronze.rows) :
                     Cell(P_ENCOUNTERS_RAW, bronze.rows[k], "REASONDESCRIPTION") # NULL}
    IN  /\ silver.cols = bronze.cols
        /\ \A r \in Range(silver.rows) :
             Cell(P_ENCOUNTERS, r, "REASONDESCRIPTION") # NULL
        /\ Range(silver.rows) = {bronze.rows[k] : k \in kept}
        /\ Len(silver.rows) = Cardinality(kept)
        /\ Len(silver.rows) <= Len(bronze.rows)

\* silver encounters written after a row was dropped and a row was kept
C2_Witness ==
  /\ Exists(store, P_ENCOUNTERS)
  /\ Tab(P_ENCOUNTERS).rows # <<>>
  /\ Len(Tab(P_ENCOUNTERS).rows) < Len(Tab(P_ENCOUNTERS_RAW).rows)

\* ---------------------------------------------------------------- C3
\* the encounter rows of silver whose patient matches some silver patient row
MatchedEncounters ==
  {k \in 1..Len(Tab(P_ENCOUNTERS).rows) :
     \E j \in 1..Len(Tab(P_PATIENTS).rows) :
       KeyEq(Cell(P_ENCOUNTERS, Tab(P_ENCOUNTERS).rows[k], "PATIENT"),
             Cell(P_PATIENTS, Tab(P_PATIENTS).rows[j], "Id"))}

\* the pairs (encounter row, patient row) of silver with equal identifiers
MatchedPairs ==
  {kj \in (1..Len(Tab(P_ENCOUNTERS).rows)) \X (1..Len(Tab(P_PATIENTS).rows)) :
     KeyEq(Cell(P_ENCOUNTERS, Tab(P_ENCOUNTERS).rows[kj[1]], "PATIENT"),
           Cell(P_PATIENTS, Tab(P_PATIENTS).rows[kj[2]], "Id"))}

\* no two rows of silver patients share an identifier
UniquePatientIds ==
  \A i, j \in 1..Len(Tab(P_PATIENTS).rows) :
    Cell(P_PATIENTS, Tab(P_PATIENTS).rows[i], "Id") =
      Cell(P_PATIENTS, Tab(P_PATIENTS).rows[j], "Id") => i = j

C4_NoSilentOverwrite ==
  [][\A p \in Paths :
       Exists(store, p) =>
         /\ pc = WriterOf[p] =>
              /\ store' = store
              /\ pc' = "failed"
              /\ err' = "WriteConflictError"
              /\ failed_at' = WriterOf[p]
         /\ pc # "rm_delta_path" => store'[p] = store[p]]_vars

\* a re-run whose silver write found the silver snapshot of the run before
C4_Witness ==
  /\ err = "WriteConflictError"
  /\ failed_at = "write_patients"
  /\ Exists(store, P_PATIENTS)
  /\ store = last.store

C6_RegistrationConsistent ==
  /\ \A t \in catalog :
       /\ t.name = GOLD_TABLE
       /\ t.location = P_GOLD
       /\ Exists(store, t.location)
  /\ (failed_at = "write_gold" /\ err = "StorageError") => ~Registered(GOLD_TABLE)

\* the name registered at the end of a complete run
C6_Witness ==
  /\ pc = "done"
  /\ Registered(GOLD_TABLE)
  /\ Exists(store, P_GOLD)

\* ---------------------------------------------------------------- C7
\* C7 as stated: when a run fails, every snapshot of every tier before the
\* failing one exists, and no snapshot of the failing tier or of a later tier
\* exists.
C7_Original ==
  pc = "failed" =>
    \A p \in Paths :
      IF TierOfPath[p] < TierOfStmt(failed_at)
      THEN Exists(store, p)
      ELSE ~Exists(store, p)

\* C7 amended: when a run from an empty workspace fails, exactly the tables
\* whose write statement precedes the failing statement exist: every
\* snapshot of every earlier tier is present and unchanged (bronze as read
\* from the files), no snapshot of a later tier exists, and of the failing
\* tier the tables written before the failure remain (a failure while
\* writing the second table of a tier leaves the first table of that tier).
C7_FailureLeavesPrefix ==
  pc = "failed" =>
    /\ \A p \in Paths : Exists(store, p) <=> Ord(WriterOf[p]) < Ord(failed_at)
    /\ \A p \in Paths : Len(store[p]) <= 1
    /\ Exists(store, P_PATIENTS_RAW) => Tab(P_PATIENTS_RAW) = csv_patients
    /\ Exists(store, P_ENCOUNTERS_RAW) => Tab(P_ENCOUNTERS_RAW) = csv_encounters
    /\ Exists(store, P_PATIENTS) =>
         /\ Tab(P_PATIENTS).src = {P_PATIENTS_RAW}
         /\ Len(Tab(P_PATIENTS).rows) = Len(csv_patients.rows)

\* a failure while writing the second silver table
C7_Witness ==
  /\ pc = "failed"
  /\ failed_at = "write_encounters"
  /\ Exists(store, P_PATIENTS)
  /\ ~Exists(store, P_ENCOUNTERS)
  /\ Exists(store, P_ENCOUNTERS_RAW)

\* ---------------------------------------------------------------- C8
\* bronze patients lacks one of the enumerated columns
LacksIdentifier ==
  /\ Exists(store, P_PATIENTS_RAW)
  /\ ~(Identifiers \subseteq Cols(P_PATIENTS_RAW))

C9_Original ==
  /\ Exists(store, P_PATIENTS) =>
       /\ "Id" \notin Cols(P_PATIENTS)
       /\ "Id" \in Cols(P_PATIENTS_RAW) => "PATIENT_ID" \in Cols(P_PATIENTS)
  /\ Exists(store, P_ENCOUNTERS) =>
       /\ "PATIENT" \notin Cols(P_ENCOUNTERS)
       /\ "PATIENT_ID" \in Cols(P_ENCOUNTERS)

\* the key values of a table, row by row
KeyColumn(path, c) ==
  [k \in 1..Len(Tab(path).rows) |-> Cell(path, Tab(path).rows[k], c)]

\* C9 amended: the persisted silver tables carry the key under the bronze
\* names: silver patients holds the bronze Id values in a column named Id,
\* silver encounters holds the PATIENT values of the kept rows in a column
\* named PATIENT, and neither has a column PATIENT_ID; the rename to
\* PATIENT_ID happens after the silver read, so only gold has PATIENT_ID.
C9_RenameAfterSilverRead ==
  /\ Exists(store, P_PATIENTS) =>
       /\ "PATIENT_ID" \notin Cols(P_PATIENTS)
       /\ "Id" \in Cols(P_PATIENTS) <=> "Id" \in Cols(P_PATIENTS_RAW)
       /\ "Id" \in Cols(P_PATIENTS) =>
            KeyColumn(P_PATIENTS, "Id") = KeyColumn(P_PATIENTS_RAW, "Id")
  /\ Exists(store, P_ENCOUNTERS) =>
       /\ "PATIENT_ID" \notin Cols(P_ENCOUNTERS)
       /\ "PATIENT" \in Cols(P_ENCOUNTERS)
       /\ Range(KeyColumn(P_ENCOUNTERS, "PATIENT")) \subseteq
            Range(KeyColumn(P_ENCOUNTERS_RAW, "PATIENT"))
  /\ Exists(store, P_GOLD) =>
       /\ Tab(P_GOLD).cols[1] = "PATIENT_ID"
       /\ "PATIENT" \notin Cols(P_GOLD)

\* all three tiers written, with gold rows keyed by PATIENT_ID
C9_Witness ==
  /\ Exists(store, P_GOLD)
  /\ Tab(P_GOLD).rows # <<>>
  /\ "Id" \in Cols(P_PATIENTS)
  /\ "PATIENT" \in Cols(P_ENCOUNTERS)

\* --------------------------------------------------------------- C10
\* the cleaning stage was run again after a run that completed, and has ended
CleaningRerunEnded ==
  /\ entry = "clean"
  /\ last.outcome = "done"
  /\ RunEnded

\* C10 as stated: re-running the cleaning stage after a completed run, with
\* bronze unchanged, completes successfully and leaves the silver snapshots
\* identical to those of the first run.
C10_Original ==
  CleaningRerunEnded =>
    /\ pc = "done"
    /\ store[P_PATIENTS] = last.store[P_PATIENTS]
    /\ store[P_ENCOUNTERS] = last.store[P_ENCOUNTERS]

\* C10 amended: re-running the cleaning stage after a completed run, with
\* bronze unchanged, leaves every snapshot (silver included) identical to
\* that of the run before, but does not complete: its first silver write
\* fails with a write conflict because the silver snapshot already exists.
C10_CleaningRerunConflicts ==
  CleaningRerunEnded =>
    /\ pc = "failed"
    /\ err = "WriteConflictError"
    /\ failed_at = "write_patients"
    /\ store = last.store
    /\ Exists(store, P_PATIENTS) /\ Exists(store, P_ENCOUNTERS)

\* the cleaning stage re-run after a completed run has ended
C10_Witness ==
  /\ CleaningRerunEnded
  /\ Exists(store, P_PATIENTS_RAW)
  /\ Tab(P_PATIENTS).rows # <<>>

====
